---- MODULE Spec2Model ----
(***************************************************************************)
(* A model of the code-extraction pipeline of custom_model.py.             *)
(*                                                                         *)
(* A text is the sequence of its lines, i.e. the value of                  *)
(* text.split('\n'): the empty string is <<Blank>>, and a text that ends   *)
(* in a newline has an empty last line.  A line is a record                *)
(*   ind   the number of leading blanks (len(line) - len(line.lstrip())),  *)
(*   kind  what the stripped line is (see the predicates below),           *)
(*   name  the identifier of a header, as a tuple of characters,           *)
(*   arg   the rest of the line (parameter list, statement text, tag),     *)
(*   mods  for an import line, the dotted module paths it names, each      *)
(*         path being the value of path.split('.'),                        *)
(*   trail TRUE when the line carries trailing blanks.                     *)
(***************************************************************************)
EXTENDS Integers, Sequences, FiniteSets, TLC

VARIABLES
  pc,            \* the operation applied last
  text,          \* the input text of the run
  code,          \* the current text
  arg,           \* the text the last operation was applied to
  hist,          \* the results of the completed clean passes
  flags,         \* the command-line options of the run
  prompt,        \* the prompt, as a sequence of words
  filename,      \* the derived file name
  requirements,  \* the dependency manifest
  idx,           \* the line index i of the loop in progress
  scan           \* the other locals of the loop in progress

vars == <<pc, text, code, arg, hist, flags, prompt, filename, requirements,
         idx, scan>>

----------------------------------------------------------------------------
(* Lines                                                                   *)

Mk(i, k, n, a, m, t) ==
  [ind |-> i, kind |-> k, name |-> n, arg |-> a, mods |-> m, trail |-> t]

Blank == Mk(0, "blank", <<>>, "", <<>>, FALSE)

Def(i, n, a) == Mk(i, "def", n, a, <<>>, FALSE)
Class(i, n) == Mk(i, "class", n, "", <<>>, FALSE)
Stmt(i, a) == Mk(i, "stmt", <<>>, a, <<>>, FALSE)
Guard == Mk(0, "guard", <<>>, "", <<>>, FALSE)
Comment(i, n) == Mk(i, "comment", n, "", <<>>, FALSE)
Doc(i) == Mk(i, "doc", <<>>, "", <<>>, FALSE)
Import(i, m) == Mk(i, "import", <<>>, "", m, FALSE)
From(i, m) == Mk(i, "from", <<>>, "", <<m>>, FALSE)
Fence(a) == Mk(0, "fence", <<>>, a, <<>>, FALSE)
Session(a) == Mk(0, "session", <<>>, a, <<>>, FALSE)

\* Single-character spellings of the identifiers used in the inputs.
nFoo == <<"F", "o", "o">>
nBar == <<"B", "a", "r">>
nbar == <<"b", "a", "r">>
nbaz == <<"b", "a", "z">>
nf == <<"f">>
ng == <<"g">>
nInit == <<"_", "_", "i", "n", "i", "t", "_", "_">>
nNode == <<"N", "o", "d", "e">>
nBST == <<"B", "S", "T">>

\* not line.strip()
IsBlank(l) == l.kind = "blank"

\* line.rstrip()
RStrip(l) == IF IsBlank(l) THEN Blank ELSE [l EXCEPT !.trail = FALSE]

\* text.endswith('\n'), and the empty text
EndsWithNewline(t) == Len(t) >= 2 /\ t[Len(t)] = Blank
IsEmptyText(t) == t = <<Blank>>

RECURSIVE Flatten(_)
Flatten(ss) == IF ss = <<>> THEN <<>> ELSE Head(ss) \o Flatten(Tail(ss))

Min(S) == CHOOSE x \in S : \A y \in S : x <= y

\* [x for x in s if P(x)]
RECURSIVE SelectIdx(_, _, _)
SelectIdx(s, keep, i) ==
  IF i > Len(s) THEN <<>>
  ELSE IF i \in keep THEN <<s[i]>> \o SelectIdx(s, keep, i + 1)
       ELSE SelectIdx(s, keep, i + 1)

Filter(s, keep) == SelectIdx(s, keep, 1)

\* the indices of the lines that satisfy P
Positions(lines, P(_)) == {i \in 1..Len(lines) : P(lines[i])}

----------------------------------------------------------------------------
(* Artifact Scrubber (first loop of clean_code_for_execution)              *)

\* the three re.match tests on line.strip()
IsSessionNoise(l) == l.kind = "session"

ScrubLines(lines) == Filter(lines, {i \in 1..Len(lines) : ~IsSessionNoise(lines[i])})

----------------------------------------------------------------------------
(* Declaration Reorderer (reorder_code)                                    *)

\* re.match(r'^def\s+\w+\s*\(', line_stripped)
IsDefHeader(l) == l.kind = "def"
\* re.match(r'^class\s+\w+', line_stripped)
IsClassHeader(l) == l.kind = "class"
\* line_stripped.startswith('"""') or line_stripped.startswith("'''")
IsTripleQuote(l) == l.kind = "doc"
\* line_stripped.startswith('#')
IsComment(l) == l.kind = "comment"
\* re.match(r'^if\s+__name__\s*==\s*[\'"]__main__[\'"]', line_stripped)
IsMainGuard(l) == l.kind = "guard"
\* stripped.startswith('import ') or
\* (stripped.startswith('from ') and ' import ' in stripped)
IsImportLine(l) == l.kind \in {"import", "from"}

ScanInit == [blocks |-> <<>>, cur |-> <<>>, inF |-> FALSE, inC |-> FALSE, inD |-> FALSE]

\* a block start that forgets the block in progress
StartBlockDropping(st, line) == [st EXCEPT !.cur = <<line>>]

StartBlock(st, line) ==
  [st EXCEPT !.blocks = IF st.cur # <<>> THEN Append(@, st.cur) ELSE @,
             !.cur = <<line>>]

\* one iteration of the first pass of reorder_code
ReorderStep(lines, i, st) ==
  LET line == lines[i] IN
  IF IsBlank(line)
    THEN IF st.cur # <<>> /\ i > 1 /\ IsBlank(lines[i - 1])
           THEN st
           ELSE [st EXCEPT !.cur = Append(@, Blank)]
  ELSE IF IsDefHeader(line)
    THEN [StartBlock(st, line) EXCEPT !.inF = TRUE]
  ELSE IF IsClassHeader(line)
    THEN [StartBlock(st, line) EXCEPT !.inC = TRUE]
  ELSE IF IsTripleQuote(line)
    THEN [st EXCEPT !.inD = ~@, !.cur = Append(@, line)]
  ELSE IF st.inF \/ st.inC \/ IsComment(line)
    THEN [st EXCEPT !.cur = Append(@, line)]
  ELSE IF IsMainGuard(line)
    THEN StartBlock(st, line)
  ELSE [st EXCEPT !.cur = Append(@, line)]

RECURSIVE ReorderScan(_, _, _)
ReorderScan(lines, i, st) ==
  IF i > Len(lines) THEN st
  ELSE ReorderScan(lines, i + 1, ReorderStep(lines, i, st))

\* code_blocks after the first pass and the trailing append
CodeBlocks(lines) ==
  LET st == ReorderScan(lines, 1, ScanInit)
  IN IF st.cur # <<>> THEN Append(st.blocks, st.cur) ELSE st.blocks

\* the tag the second loop of reorder_code gives a block
BlockTag(block) ==
  LET first == block[1]
      isImportBlock == \A i \in 1..Len(block) : IsBlank(block[i]) \/ IsImportLine(block[i])
      anyText == \E i \in 1..Len(block) : ~IsBlank(block[i])
  IN IF isImportBlock /\ anyText THEN "import"
     ELSE IF IsClassHeader(first) THEN "class"
     ELSE IF IsDefHeader(first) THEN "function"
     ELSE IF IsMainGuard(first) THEN "main"
     ELSE "other"

BlocksTagged(blocks, tag) ==
  Filter(blocks, {i \in 1..Len(blocks) : BlockTag(blocks[i]) = tag})

\* import_blocks + class_blocks + function_blocks + other_blocks + main_blocks
OrderedBlocks(blocks) ==
  BlocksTagged(blocks, "import") \o BlocksTagged(blocks, "class")
    \o BlocksTagged(blocks, "function") \o BlocksTagged(blocks, "other")
    \o BlocksTagged(blocks, "main")

\* final_lines: the blocks with one '' before every block but the first
RECURSIVE JoinBlocks(_, _)
JoinBlocks(blocks, i) ==
  IF i > Len(blocks) THEN <<>>
  ELSE (IF i > 1 THEN <<Blank>> ELSE <<>>) \o blocks[i] \o JoinBlocks(blocks, i + 1)

reorder_code(lines) ==
  LET final == JoinBlocks(OrderedBlocks(CodeBlocks(lines)), 1)
      cleaned == [i \in 1..Len(final) |-> RStrip(final[i])]
  IN IF ~IsEmptyText(cleaned) /\ ~EndsWithNewline(cleaned)
       THEN Append(cleaned, Blank)
       ELSE cleaned

----------------------------------------------------------------------------
(* Import Consolidator (move_imports_to_top)                               *)

StdLibModules ==
  {"abc", "argparse", "array", "ast", "asyncio", "base64", "bisect", "calendar",
   "collections", "concurrent", "contextlib", "copy", "csv", "datetime", "decimal",
   "difflib", "enum", "errno", "fnmatch", "functools", "gc", "glob", "gzip", "hashlib",
   "heapq", "hmac", "html", "http", "importlib", "inspect", "io", "itertools", "json",
   "logging", "math", "multiprocessing", "operator", "os", "pathlib", "pickle", "platform",
   "pprint", "queue", "random", "re", "shutil", "signal", "socket", "sqlite3", "ssl",
   "statistics", "string", "struct", "subprocess", "sys", "tempfile", "threading",
   "time", "timeit", "traceback", "types", "typing", "uuid", "warnings", "weakref",
   "xml", "xmlrpc", "zipfile", "zlib"}

\* the string `module` the categorising loop extracts, as module.split('.'):
\* a from-import keeps the text before the first dot, an import keeps the
\* whole dotted name of its first module
ModuleOf(l) ==
  IF l.kind = "from" THEN <<l.mods[1][1]>> ELSE l.mods[1]

\* module in std_lib_modules
InStdLib(m) == Len(m) = 1 /\ m[1] \in StdLibModules
\* module.startswith('.')
StartsWithDot(m) == Len(m) >= 2 /\ m[1] = ""

\* the list the categorising loop appends the line to
ImportGroup(l) ==
  IF InStdLib(ModuleOf(l)) THEN "std"
  ELSE IF StartsWithDot(ModuleOf(l)) THEN "local"
  ELSE "third"

InGroup(lines, g) ==
  Filter(lines, {i \in 1..Len(lines) : ImportGroup(lines[i]) = g})

\* all_imports after the empty items are removed
AllImports(import_lines) ==
  LET joined == InGroup(import_lines, "std") \o <<Blank>>
                  \o InGroup(import_lines, "third") \o <<Blank>>
                  \o InGroup(import_lines, "local")
      kept == Filter(joined, {i \in 1..Len(joined) : joined[i] # Blank})
  IN IF kept # <<>> THEN kept ELSE <<Blank>>

move_imports_to_top(lines) ==
  LET import_lines == Filter(lines, {i \in 1..Len(lines) : IsImportLine(lines[i])})
      non_import_lines == Filter(lines, {i \in 1..Len(lines) : ~IsImportLine(lines[i])})
      all_imports == AllImports(import_lines)
      header == IF non_import_lines # <<>> /\ ~IsBlank(non_import_lines[1])
                  THEN Append(all_imports, Blank)
                  ELSE all_imports
  IN IF import_lines = <<>> THEN lines ELSE header \o non_import_lines

\* clean_code_for_execution
clean_code_for_execution(lines) ==
  move_imports_to_top(reorder_code(ScrubLines(lines)))

----------------------------------------------------------------------------
(* Block Locator (extract_code_blocks)                                     *)

\* A fence line is ``` followed by its tag.  r'```(?:python)?\n' matches the
\* line when the tag is empty or python and a newline follows it.
HasFence(l) == l.kind = "fence"
IsOpeningFence(lines, i) ==
  HasFence(lines[i]) /\ lines[i].arg \in {"", "python"} /\ i < Len(lines)

\* the first ``` after the opening line: ([\s\S]*?)```
ClosingFence(lines, i) ==
  LET later == {c \in (i + 1)..Len(lines) : HasFence(lines[c])}
  IN IF later = {} THEN 0 ELSE CHOOSE c \in later : \A d \in later : c <= d

\* re.findall(r'```(?:python)?\n([\s\S]*?)```', text): the group runs from
\* the line after the opening fence to the start of the closing fence's
\* line, so it ends with the newline of the last inner line
RECURSIVE FencedBlocks(_, _)
FencedBlocks(lines, i) ==
  IF i > Len(lines) THEN <<>>
  ELSE IF IsOpeningFence(lines, i) /\ ClosingFence(lines, i) # 0
    THEN LET c == ClosingFence(lines, i)
         IN <<Append(SubSeq(lines, i + 1, c - 1), Blank)>> \o FencedBlocks(lines, c + 1)
  ELSE FencedBlocks(lines, i + 1)

\* a + b for two texts, where the last line of a or the first of b is empty
ConcatText(a, b) ==
  SubSeq(a, 1, Len(a) - 1)
    \o <<IF a[Len(a)] = Blank THEN Head(b) ELSE a[Len(a)]>>
    \o Tail(b)

\* sep.join(texts)
RECURSIVE JoinTexts(_, _)
JoinTexts(texts, sep) ==
  IF Len(texts) = 1 THEN texts[1]
  ELSE ConcatText(ConcatText(texts[1], sep), JoinTexts(Tail(texts), sep))

\* the text '\n\n'
TwoNewlines == <<Blank, Blank, Blank>>

\* ( {4}|\t)(.+): four blanks and at least one more character on the line
IsIndentedLine(l) == l.ind >= 4 /\ (~IsBlank(l) \/ l.ind >= 5)
\* group 2: the line without its first four blanks
Dedent(l) == [l EXCEPT !.ind = @ - 4]

\* re.findall(r'(?:^|\n)( {4}|\t)(.+)(?:\n|$)', text): a match needs the
\* start of the text or the newline before the line, and a match consumes
\* the newline after its line
RECURSIVE IndentedBlocks(_, _, _)
IndentedBlocks(lines, i, newlineFree) ==
  IF i > Len(lines) THEN <<>>
  ELSE IF IsIndentedLine(lines[i]) /\ newlineFree
    THEN <<Dedent(lines[i])>> \o IndentedBlocks(lines, i + 1, FALSE)
  ELSE IndentedBlocks(lines, i + 1, TRUE)

----------------------------------------------------------------------------
(* Heuristic search (extract_python_like_code)                             *)

For(i) == Mk(i, "for", <<>>, "", <<>>, FALSE)

\* statement texts that r'\w+\s*=\s*(?:[\'"]\w+[\'"]|\d+|\[.+\]|\{.+\}|\(.+\))'
\* matches from their first character to their last
LiteralAssignments == {"x = 1"}
IsLiteralAssignment(l) == l.kind = "stmt" /\ l.arg \in LiteralAssignments

\* the header each of the first four patterns starts with
IsPatternHeader(k, l) ==
  CASE k = 1 -> l.kind = "def"
    [] k = 2 -> l.kind = "class"
    [] k = 3 -> l.kind = "guard"
    [] k = 4 -> l.kind = "for"

\* one repetition of (?:\n\s+.+) after line e: \s+ takes the blank lines
\* that follow and the indentation of the next line, which must leave a
\* non-empty rest; 0 when the repetition does not match
BodyLine(lines, e) ==
  LET n == Len(lines)
      b == CHOOSE k \in e..n :
             /\ \A j \in (e + 1)..k : IsBlank(lines[j])
             /\ (k = n \/ ~IsBlank(lines[k + 1]))
      spaces == {w \in (e + 1)..b : lines[w].ind >= (IF w = e + 1 THEN 2 ELSE 1)}
  IN IF b < n
       THEN IF b > e \/ lines[b + 1].ind >= 1 THEN b + 1 ELSE 0
       ELSE IF spaces = {} THEN 0
            ELSE CHOOSE w \in spaces : \A v \in spaces : v <= w

\* the last line of the greedy (?:\n\s+.+)+ that starts after line e
RECURSIVE BodyExtent(_, _)
BodyExtent(lines, e) ==
  IF e >= Len(lines) \/ BodyLine(lines, e) = 0 THEN e
  ELSE BodyExtent(lines, BodyLine(lines, e))

\* re.findall of one of the first four patterns: the matches, each from its
\* keyword (the header's indentation is not part of the match)
RECURSIVE HeaderMatches(_, _, _)
HeaderMatches(k, lines, i) ==
  IF i > Len(lines) THEN <<>>
  ELSE IF IsPatternHeader(k, lines[i]) /\ BodyExtent(lines, i) > i
    THEN LET e == BodyExtent(lines, i)
         IN <<<<[lines[i] EXCEPT !.ind = 0]>> \o SubSeq(lines, i + 1, e)>>
              \o HeaderMatches(k, lines, e + 1)
  ELSE HeaderMatches(k, lines, i + 1)

\* re.findall of the assignment pattern
RECURSIVE AssignMatches(_, _)
AssignMatches(lines, i) ==
  IF i > Len(lines) THEN <<>>
  ELSE (IF IsLiteralAssignment(lines[i])
          THEN <<<<[lines[i] EXCEPT !.ind = 0, !.trail = FALSE]>>>>
          ELSE <<>>) \o AssignMatches(lines, i + 1)

\* code_fragments
CodeFragments(lines) ==
  HeaderMatches(1, lines, 1) \o HeaderMatches(2, lines, 1)
    \o HeaderMatches(3, lines, 1) \o HeaderMatches(4, lines, 1)
    \o AssignMatches(lines, 1)

\* the text of line f is a prefix of the text of line l
IsPrefixOfLine(f, l) ==
  \/ f = l
  \/ ~IsBlank(f) /\ l.trail /\ [l EXCEPT !.trail = FALSE] = f
  \/ IsBlank(f) /\ l.ind >= f.ind

\* the fragment's text is a substring of the text that starts in line p
OccursAt(frag, lines, p) ==
  LET n == Len(frag) IN
  /\ p + n - 1 <= Len(lines)
  /\ IF n = 1
       THEN IsPrefixOfLine(frag[1], [lines[p] EXCEPT !.ind = 0])
       ELSE /\ [lines[p] EXCEPT !.ind = 0] = frag[1]
            /\ \A k \in 2..(n - 1) : lines[p + k - 1] = frag[k]
            /\ IsPrefixOfLine(frag[n], lines[p + n - 1])

\* text.find(frag), as the line the first occurrence starts in
FindLine(frag, lines) ==
  CHOOSE p \in 1..Len(lines) :
    OccursAt(frag, lines, p) /\ \A q \in 1..(p - 1) : ~OccursAt(frag, lines, q)

\* (pos, frag) < (pos2, frag2): two fragments found at one position are a
\* prefix of one another, the shorter sorts first
FragmentBefore(lines, f, g) ==
  \/ FindLine(f, lines) < FindLine(g, lines)
  \/ /\ FindLine(f, lines) = FindLine(g, lines)
     /\ \/ Len(f) < Len(g)
        \/ /\ Len(f) = Len(g)
           /\ f[Len(f)] # g[Len(g)]
           /\ IsPrefixOfLine(f[Len(f)], g[Len(g)])

\* positions.sort()
RECURSIVE InsertFragment(_, _, _)
InsertFragment(lines, f, sorted) ==
  IF sorted = <<>> THEN <<f>>
  ELSE IF FragmentBefore(lines, f, Head(sorted)) THEN <<f>> \o sorted
  ELSE <<Head(sorted)>> \o InsertFragment(lines, f, Tail(sorted))

RECURSIVE SortFragments(_, _)
SortFragments(lines, frags) ==
  IF frags = <<>> THEN <<>>
  ELSE InsertFragment(lines, Head(frags), SortFragments(lines, Tail(frags)))

\* extract_python_like_code; <<>> stands for None
extract_python_like_code(lines) ==
  LET frags == CodeFragments(lines)
  IN IF frags = <<>> THEN <<>>
     ELSE JoinTexts(SortFragments(lines, frags), TwoNewlines)

\* extract_code_blocks(text, clean_output)
extract_code_blocks(lines, clean_output) ==
  LET code_blocks == FencedBlocks(lines, 1)
      indented_blocks == IndentedBlocks(lines, 1, TRUE)
      maybe_code == extract_python_like_code(lines)
  IN IF code_blocks # <<>>
       THEN LET joined == JoinTexts(code_blocks, TwoNewlines)
            IN IF clean_output THEN clean_code_for_execution(joined) ELSE joined
     ELSE IF indented_blocks # <<>>
       THEN IF clean_output THEN clean_code_for_execution(indented_blocks)
            ELSE indented_blocks
     ELSE IF clean_output
       THEN IF maybe_code # <<>> THEN clean_code_for_execution(maybe_code)
            ELSE clean_code_for_execution(lines)
     ELSE lines

----------------------------------------------------------------------------
(* Conflict Resolver, pass 1 (first loop of fix_common_code_issues)        *)

\* lines[:k] and lines[k:], for any k >= 0
Take(lines, k) == SubSeq(lines, 1, IF k < Len(lines) THEN k ELSE Len(lines))
Drop(lines, k) == SubSeq(lines, (IF k < Len(lines) THEN k ELSE Len(lines)) + 1, Len(lines))

\* re.match(r'^\s*def\s+(\w+)', line)
IsMethodHeader(l) == l.kind = "def"

\* lines[j].startswith(' ') or lines[j].startswith('\t')
StartsWithBlank(l) == l.ind >= 1

\* the index after the span of a repeated class: the while loop of line 564
RECURSIVE ClassSpanEnd(_, _)
ClassSpanEnd(lines, j) ==
  IF j <= Len(lines) /\ (IsBlank(lines[j]) \/ StartsWithBlank(lines[j]))
    THEN ClassSpanEnd(lines, j + 1)
    ELSE j

\* the index after the lines that are blank or indented deeper than
\* indent_level: the while loops of lines 588, 663, 692 and 778
RECURSIVE IndentSpanEnd(_, _, _)
IndentSpanEnd(lines, j, indent_level) ==
  IF j <= Len(lines) /\ (IsBlank(lines[j]) \/ lines[j].ind > indent_level)
    THEN IndentSpanEnd(lines, j + 1, indent_level)
    ELSE j

\* current_class: the class recorded last, <<>> for None
CurrentClass(class_defs) ==
  IF class_defs = <<>> THEN <<>> ELSE class_defs[Len(class_defs)]

InSeq(x, sq) == \E k \in 1..Len(sq) : sq[k] = x

Pass1Init == [class_defs |-> <<>>, method_defs |-> {}, fixed_lines |-> <<>>]

\* the first loop; class_defs holds the recorded names in insertion order,
\* method_defs the recorded keys
RECURSIVE Pass1Scan(_, _, _)
Pass1Scan(lines, i, st) ==
  IF i > Len(lines) THEN st
  ELSE
    LET line == lines[i]
        isClass == IsClassHeader(line)
        repeatedClass == isClass /\ InSeq(line.name, st.class_defs)
        class_defs == IF isClass /\ ~repeatedClass
                        THEN Append(st.class_defs, line.name)
                        ELSE st.class_defs
        method_key == <<CurrentClass(class_defs), line.name>>
        repeatedMethod == /\ IsMethodHeader(line)
                          /\ method_key \in st.method_defs
                          /\ line.name # nInit
    IN IF repeatedClass
         THEN Pass1Scan(lines, ClassSpanEnd(lines, i + 1), st)
       ELSE IF repeatedMethod
         THEN Pass1Scan(lines, IndentSpanEnd(lines, i + 1, line.ind),
                        [st EXCEPT !.class_defs = class_defs])
       ELSE Pass1Scan(lines, i + 1,
              [class_defs |-> class_defs,
               method_defs |-> IF IsMethodHeader(line)
                                 THEN st.method_defs \cup {method_key}
                                 ELSE st.method_defs,
               fixed_lines |-> Append(st.fixed_lines, line)])

\* '\n'.join(fixed_lines).split('\n')
Pass1(lines) ==
  LET fixed == Pass1Scan(lines, 1, Pass1Init).fixed_lines
  IN IF fixed = <<>> THEN <<Blank>> ELSE fixed

----------------------------------------------------------------------------
(* Conflict Resolver, pass 2a (fix_incomplete_node_class)                  *)

nTreeNode == <<"T", "r", "e", "e", "N", "o", "d", "e">>
nBinarySearchTree ==
  <<"B", "i", "n", "a", "r", "y", "S", "e", "a", "r", "c", "h", "T", "r", "e", "e">>

\* (TreeNode|Node) and (BinarySearchTree|BST)
NodeNames == {nTreeNode, nNode}
ContainerNames == {nBinarySearchTree, nBST}
\* (?:key|val|value)
KeyNames == {"key", "val", "value"}

\* the parameter list of a header, as its names
Params(a) ==
  CASE a = "" -> <<>>
    [] a = "self" -> <<"self">>
    [] a = "self, key" -> <<"self", "key">>
    [] a = "self, val" -> <<"self", "val">>
    [] a = "self, key, left" -> <<"self", "key", "left">>

\* the first index whose line is in the set of indices, 0 when there is none
FirstIn(S) == IF S = {} THEN 0 ELSE Min(S)

\* r'class\s+NAME\s*:' for one of the names
ClassLines(lines, names) ==
  {i \in 1..Len(lines) : IsClassHeader(lines[i]) /\ lines[i].name \in names}

\* r'def\s+__init__\s*\(\s*self\s*,\s*(?:key|val|value)'
IsKeyInit(l) ==
  /\ l.kind = "def" /\ l.name = nInit
  /\ Len(Params(l.arg)) >= 2
  /\ Params(l.arg)[1] = "self" /\ Params(l.arg)[2] \in KeyNames

\* the attribute a statement assigns (r'self\.ATTR\s*='), "" for none,
\* and whether it has the form self.(key|val|value) = (key|val|value)
AssignedAttr(l) ==
  IF l.kind # "stmt" THEN ""
  ELSE CASE l.arg \in {"self.key = key", "self.key = val", "self.key = None"} -> "key"
         [] l.arg \in {"self.val = key", "self.val = val"} -> "val"
         [] l.arg \in {"self.value = key", "self.value = val"} -> "value"
         [] l.arg = "self.left = None" -> "left"
         [] l.arg = "self.right = None" -> "right"
         [] OTHER -> ""
IsKeyAssign(l) ==
  l.kind = "stmt" /\ l.arg \in {"self.key = key", "self.key = val", "self.val = key",
                                "self.val = val", "self.value = key", "self.value = val"}

\* f'self.{attr} = {key_param}' and f'self, {key_param}'
SelfAssign(attr, key_param) ==
  CASE attr = "key" /\ key_param = "key" -> "self.key = key"
    [] attr = "key" /\ key_param = "val" -> "self.key = val"
    [] attr = "val" /\ key_param = "key" -> "self.val = key"
    [] attr = "val" /\ key_param = "val" -> "self.val = val"
    [] attr = "value" /\ key_param = "key" -> "self.value = key"
    [] attr = "value" /\ key_param = "val" -> "self.value = val"
SelfNone(attr) ==
  CASE attr = "left" -> "self.left = None"
    [] attr = "right" -> "self.right = None"
SelfAnd(key_param) ==
  CASE key_param = "key" -> "self, key"
    [] key_param = "val" -> "self, val"

\* the first line after line m that is not blank, 0 when there is none
NextSolid(lines, m) == FirstIn({c \in (m + 1)..Len(lines) : ~IsBlank(lines[c])})

\* r'class\s+NAME\s*:(?:\s*\n\s*|$)' matches at the first line of s
NodeHeaderMatches(s, name) ==
  /\ IsClassHeader(s[1]) /\ s[1].name = name
  /\ (Len(s) > 1 \/ ~s[1].trail)

\* re.sub(tree_node_pattern, replacement, code), with body the lines of the
\* replacement after its header: a match takes the header, the newline and
\* every blank that follows, the indentation of the next line included
RECURSIVE NodeSub(_, _, _)
NodeSub(s, name, body) ==
  IF s = <<>> THEN <<>>
  ELSE IF NodeHeaderMatches(s, name)
    THEN LET c == NextSolid(s, 1)
             header == [s[1] EXCEPT !.trail = FALSE]
         IN IF c = 0 THEN <<header>> \o body \o <<Blank>>
            ELSE <<header>> \o body
                   \o NodeSub(<<[s[c] EXCEPT !.ind = 0]>> \o SubSeq(s, c + 1, Len(s)),
                              name, body)
  ELSE <<Head(s)>> \o NodeSub(Tail(s), name, body)

\* the line whose newline ends the match of bst_pattern that starts at the
\* first line of s: after the first constructor with a key parameter, the
\* first newline followed by blanks and `def`, or by blanks only; 0 if none
BstMatchEnd(s, name) ==
  IF ~(IsClassHeader(s[1]) /\ s[1].name = name) THEN 0
  ELSE LET dd == FirstIn({d \in 2..Len(s) : IsKeyInit(s[d])})
       IN IF dd = 0 THEN 0
          ELSE FirstIn({m \in dd..(Len(s) - 1) :
                         \/ NextSolid(s, m) = 0
                         \/ s[NextSolid(s, m)].kind = "def"})

\* what is left of a header whose `def` the match has taken
DefRest(l) == [l EXCEPT !.ind = 1, !.kind = "defrest"]

\* the replacement f'class {bst_class}:\n    def __init__(self):\n
\*         self.root = None\n'
ContainerReplacement(header) ==
  <<[header EXCEPT !.trail = FALSE], Def(4, nInit, "self"), Stmt(8, "self.root = None")>>

\* re.sub(bst_pattern, replacement, code, flags=re.DOTALL)
RECURSIVE BstSub(_, _)
BstSub(s, name) ==
  IF s = <<>> THEN <<>>
  ELSE IF BstMatchEnd(s, name) # 0
    THEN LET m == BstMatchEnd(s, name)
             c == NextSolid(s, m)
         IN IF c = 0 THEN ContainerReplacement(s[1]) \o <<Blank>>
            ELSE ContainerReplacement(s[1]) \o <<DefRest(s[c])>>
                   \o BstSub(SubSeq(s, c + 1, Len(s)), name)
  ELSE <<Head(s)>> \o BstSub(Tail(s), name)

\* proper_node_init_method.replace('def ', '    def ')
IndentDefs(lines) ==
  [i \in 1..Len(lines) |->
     IF lines[i].kind = "def" THEN [lines[i] EXCEPT !.ind = @ + 4] ELSE lines[i]]

\* the constructor synthesized from bst_init_method
SynthesizedInit(bst_init_method) ==
  LET withParam == {i \in 1..Len(bst_init_method) :
                      /\ bst_init_method[i].kind = "def"
                      /\ bst_init_method[i].name = nInit
                      /\ Len(Params(bst_init_method[i].arg)) >= 2
                      /\ Params(bst_init_method[i].arg)[1] = "self"}
      key_param == IF withParam = {} THEN "key"
                   ELSE Params(bst_init_method[Min(withParam)].arg)[2]
      found(attr) == \E i \in 1..Len(bst_init_method) :
                        AssignedAttr(bst_init_method[i]) = attr
      pick(attr) == IF ~found(attr) THEN <<>>
                    ELSE IF attr \in KeyNames THEN <<Stmt(8, SelfAssign(attr, key_param))>>
                    ELSE <<Stmt(8, SelfNone(attr))>>
      attributes == pick("key") \o pick("val") \o pick("value")
                      \o pick("left") \o pick("right")
  IN <<Def(4, nInit, SelfAnd(key_param))>>
       \o (IF attributes # <<>> THEN attributes
           ELSE <<Stmt(8, SelfAssign("key", key_param)), Stmt(8, "self.left = None"),
                  Stmt(8, "self.right = None")>>)

fix_incomplete_node_class(lines) ==
  LET nodes == ClassLines(lines, NodeNames)
      bsts == ClassLines(lines, ContainerNames)
  IN IF nodes = {} \/ bsts = {} THEN lines
     ELSE
       LET tree_node_class == lines[Min(nodes)].name
           bst_class == lines[Min(bsts)].name
           b == Min(bsts)
           bst_init_with_key == \E d \in (b + 1)..Len(lines) : IsKeyInit(lines[d])
           empty_treenode ==
             \E k \in ClassLines(lines, {tree_node_class}) :
               k < Len(lines) \/ ~lines[k].trail
           bst_init_method ==
             SubSeq(lines, b, IndentSpanEnd(lines, b + 1, lines[b].ind) - 1)
           d == FirstIn({i \in 1..Len(lines) : IsKeyInit(lines[i])})
           proper_node_init ==
             d # 0 /\ \E a \in (d + 1)..Len(lines) : IsKeyAssign(lines[a])
           proper_node_init_method ==
             SubSeq(lines, d, IndentSpanEnd(lines, d + 1, lines[d].ind) - 1)
       IN IF ~(bst_init_with_key /\ empty_treenode) THEN lines
          ELSE IF proper_node_init
            THEN BstSub(NodeSub(lines, tree_node_class, IndentDefs(proper_node_init_method)),
                        bst_class)
          ELSE NodeSub(BstSub(lines, bst_class), tree_node_class,
                       SynthesizedInit(bst_init_method))

----------------------------------------------------------------------------
(* Conflict Resolver, pass 2b (fix_duplicate_init_methods)                 *)

\* the number of commas in a line
Commas(l) ==
  IF l.kind = "def" \/ l.kind = "defrest"
    THEN (IF Params(l.arg) = <<>> THEN 0 ELSE Len(Params(l.arg)) - 1)
    ELSE IF l.kind \in {"import"} THEN Len(l.mods) - 1
    ELSE 0

RECURSIVE SumCommas(_)
SumCommas(lines) ==
  IF lines = <<>> THEN 0 ELSE Commas(Head(lines)) + SumCommas(Tail(lines))

\* re.match(r'^\s*def\s+__init__\s*\(', line)
IsInitHeader(l) == l.kind = "def" /\ l.name = nInit

\* the first loop: inits is the list of [class, start, end] in the order
\* found (start and end count lines from 0, end is exclusive)
RECURSIVE InitScan(_, _, _, _)
InitScan(lines, i, class_name, inits) ==
  IF i > Len(lines) THEN inits
  ELSE
    LET line == lines[i]
        cls == IF IsClassHeader(line) THEN line.name ELSE class_name
    IN IF IsInitHeader(line) /\ cls # <<>>
         THEN LET j == IndentSpanEnd(lines, i + 1, line.ind)
              IN InitScan(lines, j, cls,
                          Append(inits, [class |-> cls, start |-> i - 1, end |-> j - 1,
                                         lines |-> SubSeq(lines, i, j - 1)]))
         ELSE InitScan(lines, i + 1, cls, inits)

\* the keys of init_methods in insertion order
RECURSIVE ClassesOf(_, _)
ClassesOf(inits, seen) ==
  IF inits = <<>> THEN <<>>
  ELSE IF InSeq(Head(inits).class, seen) THEN ClassesOf(Tail(inits), seen)
  ELSE <<Head(inits).class>> \o ClassesOf(Tail(inits), Append(seen, Head(inits).class))

\* the sort key of max(): (len(x[2].split(',')), len(x[2].split('\n')))
KeyLess(a, b) ==
  LET ca == SumCommas(a.lines) + 1
      cb == SumCommas(b.lines) + 1
  IN ca < cb \/ (ca = cb /\ Len(a.lines) < Len(b.lines))

\* max(inits, key=...): the first element no other element exceeds
BestInit(inits) ==
  LET best == {k \in 1..Len(inits) : \A m \in 1..Len(inits) : ~KeyLess(inits[k], inits[m])}
  IN inits[Min(best)]

\* remove the spans of to_remove, latest start first, from the current lines
RECURSIVE RemoveSpans(_, _)
RemoveSpans(lines, to_remove) ==
  IF to_remove = <<>> THEN lines
  ELSE LET last == to_remove[Len(to_remove)]
       IN RemoveSpans(Take(lines, last.start) \o Drop(lines, last.end),
                      SubSeq(to_remove, 1, Len(to_remove) - 1))

\* the second loop: one iteration per class of init_methods
RECURSIVE CollapseInits(_, _, _)
CollapseInits(lines, inits, classes) ==
  IF classes = <<>> THEN lines
  ELSE LET mine == Filter(inits, {k \in 1..Len(inits) : inits[k].class = Head(classes)})
           best == BestInit(mine)
           to_remove == Filter(mine, {k \in 1..Len(mine) : mine[k] # best})
       IN CollapseInits(IF Len(mine) > 1 THEN RemoveSpans(lines, to_remove) ELSE lines,
                        inits, Tail(classes))

fix_duplicate_init_methods(lines) ==
  LET inits == InitScan(lines, 1, <<>>, <<>>)
      out == CollapseInits(lines, inits, ClassesOf(inits, <<>>))
  IN IF out = <<>> THEN <<Blank>> ELSE out

\* fix_common_code_issues
fix_common_code_issues(lines) ==
  fix_duplicate_init_methods(fix_incomplete_node_class(Pass1(lines)))

----------------------------------------------------------------------------
(* Dependency Reporter (generate_requirements_file)                        *)

\* line.startswith('import ') or (line.startswith('from ') and
\* ' import ' in line), on the stripped line
IsRequirementImport(l) == l.kind \in {"import", "from"}

\* the main packages of an import line: of every comma part the text before
\* ' as ' and before the first dot; of a from-import the text before the
\* first dot of its module, the empty string for a relative module
PackagesOf(l) ==
  IF l.kind = "import" THEN {l.mods[k][1] : k \in 1..Len(l.mods)}
  ELSE {l.mods[1][1]}

Packages(lines) ==
  UNION {PackagesOf(lines[i]) : i \in Positions(lines, IsRequirementImport)}

\* the std_lib_modules of generate_requirements_file
RequirementsStdLib == StdLibModules \cup {"tkinter", "tk", "ttk"}

MappedPackages ==
  {"bs4", "sklearn", "PIL", "cv2", "pygame", "np", "pd", "plt", "tf", "torch", "db"}

package_mapping(pkg) ==
  CASE pkg = "bs4" -> "beautifulsoup4"
    [] pkg = "sklearn" -> "scikit-learn"
    [] pkg = "PIL" -> "pillow"
    [] pkg = "cv2" -> "opencv-python"
    [] pkg = "pygame" -> "pygame"
    [] pkg = "np" -> "numpy"
    [] pkg = "pd" -> "pandas"
    [] pkg = "plt" -> "matplotlib"
    [] pkg = "tf" -> "tensorflow"
    [] pkg = "torch" -> "torch"
    [] pkg = "db" -> "sqlalchemy"
    [] OTHER -> pkg

\* the names the bounded inputs can produce, in the order of list.sort()
\* (by code point: the empty string, then upper case, then lower case)
NameOrder ==
  <<"", "PIL", "beautifulsoup4", "bs4", "flask", "m", "np", "numpy", "os",
    "pillow", "y">>

NameRank(n) == CHOOSE i \in 1..Len(NameOrder) : NameOrder[i] = n

Repeat(x, n) == [i \in 1..n |-> x]

\* requirements.sort() over the list that holds package_mapping of every
\* third-party package, one item per package
RECURSIVE SortedRequirements(_, _)
SortedRequirements(third_party_packages, i) ==
  IF i > Len(NameOrder) THEN <<>>
  ELSE Repeat(NameOrder[i],
              Cardinality({pkg \in third_party_packages :
                             package_mapping(pkg) = NameOrder[i]}))
         \o SortedRequirements(third_party_packages, i + 1)

generate_requirements_file(lines) ==
  SortedRequirements(Packages(lines) \ RequirementsStdLib, 1)

----------------------------------------------------------------------------
(* Filename derivation (generate_filename_from_content)                    *)

UpperCase == <<"A", "B", "C", "D", "E", "F", "G", "H", "I", "J", "K", "L", "M", "N", "O", "P", "Q", "R", "S", "T", "U", "V", "W", "X", "Y", "Z">>
LowerCase == <<"a", "b", "c", "d", "e", "f", "g", "h", "i", "j", "k", "l", "m", "n", "o", "p", "q", "r", "s", "t", "u", "v", "w", "x", "y", "z">>
Digits == {"0", "1", "2", "3", "4", "5", "6", "7", "8", "9"}

\* c.isupper() and c.lower()
IsUpper(c) == \E i \in 1..Len(UpperCase) : UpperCase[i] = c
Lower(c) ==
  IF IsUpper(c) THEN LowerCase[CHOOSE i \in 1..Len(UpperCase) : UpperCase[i] = c]
  ELSE c

kwClass == <<"c", "l", "a", "s", "s">>
kwDef == <<"d", "e", "f">>
DotPy == <<".", "p", "y">>

\* a comment that ends in a word: "# the Node class"
CommentEnding(i, w) == Mk(i, "comment", <<>>, w, <<>>, FALSE)

\* the word (\w+) a stripped line starts with, <<>> when it starts with none
\* (a comment, a fence, a triple quote, a blank line)
FirstWord(l) ==
  CASE l.kind = "class" -> kwClass
    [] l.kind = "def" -> kwDef
    [] l.kind = "defrest" -> l.name
    [] l.kind = "guard" -> <<"i", "f">>
    [] l.kind = "for" -> <<"f", "o", "r">>
    [] l.kind = "import" -> <<"i", "m", "p", "o", "r", "t">>
    [] l.kind = "from" -> <<"f", "r", "o", "m">>
    [] l.kind = "stmt" /\ l.arg = "x = 1" -> <<"x">>
    [] l.kind = "stmt" /\ l.arg = "pass" -> <<"p", "a", "s", "s">>
    [] l.kind = "stmt" /\ l.arg \in {"return 1", "return 2", "return 3"} ->
         <<"r", "e", "t", "u", "r", "n">>
    [] l.kind = "stmt" /\ l.arg = "Here is the code:" -> <<"H", "e", "r", "e">>
    [] l.kind = "stmt" /\ (AssignedAttr(l) # "" \/ l.arg = "self.root = None") ->
         <<"s", "e", "l", "f">>
    [] OTHER -> <<>>

\* the keyword a line ends with: the last word of a comment
LastWord(l) ==
  IF l.kind = "comment" /\ l.arg = "class" THEN kwClass
  ELSE IF l.kind = "comment" /\ l.arg = "def" THEN kwDef
  ELSE <<>>

\* the group of the first match of kw\s+(\w+) that starts in line i: the
\* word after the keyword on the line itself (a header's name, the word
\* after `class` in a comment), or, when the line ends with the keyword,
\* the first word of the next line that is not blank; <<>> when none
KeywordMatchAt(lines, i, kw) ==
  LET l == lines[i]
      c == NextSolid(lines, i)
  IN IF kw = kwClass /\ l.kind = "class" THEN l.name
     ELSE IF kw = kwClass /\ l.kind = "comment" /\ l.name # <<>> THEN l.name
     ELSE IF kw = kwDef /\ l.kind = "def" THEN l.name
     ELSE IF LastWord(l) = kw /\ c # 0 THEN FirstWord(lines[c])
     ELSE <<>>

\* re.search(kw\s+(\w+), code).group(1), <<>> for no match
KeywordSearch(lines, kw) ==
  LET hits == {i \in 1..Len(lines) : KeywordMatchAt(lines, i, kw) # <<>>}
  IN IF hits = {} THEN <<>> ELSE KeywordMatchAt(lines, Min(hits), kw)

\* s.lstrip('_')
RECURSIVE LStripUnderscores(_)
LStripUnderscores(w) ==
  IF w # <<>> /\ Head(w) = "_" THEN LStripUnderscores(Tail(w)) ELSE w

\* ''.join(['_' + c.lower() if c.isupper() else c for c in name]).lstrip('_')
SnakeCase(name) ==
  LStripUnderscores(
    Flatten([i \in 1..Len(name) |->
               IF IsUpper(name[i]) THEN <<"_", Lower(name[i])>> ELSE <<name[i]>>]))

common_words ==
  {<<"a">>,
   <<"a", "n">>,
   <<"t", "h", "e">>,
   <<"t", "o">>,
   <<"i", "n">>,
   <<"f", "o", "r">>,
   <<"o", "f">>,
   <<"a", "n", "d">>,
   <<"w", "i", "t", "h">>,
   <<"t", "h", "a", "t">>,
   <<"w", "r", "i", "t", "e">>,
   <<"c", "r", "e", "a", "t", "e">>,
   <<"i", "m", "p", "l", "e", "m", "e", "n", "t">>,
   <<"p", "y", "t", "h", "o", "n">>,
   <<"f", "u", "n", "c", "t", "i", "o", "n">>,
   <<"c", "l", "a", "s", "s">>,
   <<"c", "o", "d", "e">>}

LowerWord(w) == [i \in 1..Len(w) |-> Lower(w[i])]

\* '_'.join(words)
RECURSIVE JoinWords(_)
JoinWords(ws) ==
  IF ws = <<>> THEN <<>>
  ELSE IF Len(ws) = 1 THEN ws[1]
  ELSE ws[1] \o <<"_">> \o JoinWords(Tail(ws))

\* re.sub(r'[^a-z0-9_]', '', name)
KeepNameChars(w) ==
  LET ok(c) == c = "_" \/ c \in Digits \/ \E i \in 1..Len(LowerCase) : LowerCase[i] = c
  IN Filter(w, {i \in 1..Len(w) : ok(w[i])})

\* values of time.strftime("%Y%m%d_%H%M%S")
Timestamps ==
  {<<"2", "0", "2", "5", "0", "1", "0", "1", "_", "0", "0", "0", "0", "0", "0">>,
   <<"2", "0", "2", "5", "1", "2", "3", "1", "_", "2", "3", "5", "9", "5", "9">>}

\* generate_filename_from_content(code, prompt) at the time timestamp; the
\* prompt is the list prompt.split()
generate_filename_from_content(lines, prompt_words, timestamp) ==
  LET class_match == KeywordSearch(lines, kwClass)
      function_match == KeywordSearch(lines, kwDef)
      words == [i \in 1..Len(prompt_words) |-> LowerWord(prompt_words[i])]
      relevant_words ==
        Filter(words, {i \in 1..Len(words) : words[i] \notin common_words /\ Len(words[i]) > 2})
      first3 == SubSeq(relevant_words, 1, IF Len(relevant_words) < 3 THEN Len(relevant_words) ELSE 3)
  IN IF class_match # <<>> THEN SnakeCase(class_match) \o DotPy
     ELSE IF function_match # <<>> THEN function_match \o DotPy
     ELSE IF relevant_words # <<>> THEN KeepNameChars(JoinWords(first3)) \o DotPy
     ELSE <<"c", "o", "d", "e", "_">> \o timestamp \o DotPy

----------------------------------------------------------------------------
(* Bounded inputs                                                          *)

MaxCleanLines == 4
MaxPasses == 2
MaxImportLines == 4

TextsOver(alphabet, n) == UNION {[1..k -> alphabet] : k \in 1..n}

pOs == <<"os">>
pNumpy == <<"numpy">>
pOsPath == <<"os", "path">>
pRelM == <<"", "m">>
pRelY == <<"", "y">>

CleanAlphabet ==
  {Blank, Def(0, nf, ""), Def(4, nbar, "self"), Class(0, nFoo),
   Stmt(0, "x = 1"), Stmt(4, "pass"), Guard, Import(0, <<pOs>>)}

ImportAlphabet ==
  {Blank, Stmt(0, "x = 1"), Import(0, <<pOs>>), Import(0, <<pNumpy>>),
   Import(4, <<pOsPath>>), From(0, pRelM), From(0, pOsPath), Import(0, <<pRelY>>)}

MaxRawLines == 6

RawAlphabet ==
  {Blank, Fence(""), Fence("python"), Fence("js"), Stmt(0, "x = 1"), Stmt(4, "pass")}

NoFlags == [code_only |-> FALSE, clean |-> FALSE, fix |-> FALSE]

Idle ==
  /\ flags = NoFlags /\ prompt = <<>> /\ filename = <<>> /\ requirements = <<>>

----------------------------------------------------------------------------
(* The clean stage applied to a text, and again to its own output          *)

InitClean ==
  /\ text \in TextsOver(CleanAlphabet, MaxCleanLines)
  /\ code = text /\ arg = text /\ hist = <<>> /\ pc = "input"
  /\ idx = 0 /\ scan = <<>>
  /\ Idle

ReorderCode ==
  /\ \/ pc = "input"
     \/ pc = "consolidated" /\ Len(hist) \in 1..(MaxPasses - 1)
  /\ arg' = code
  /\ code' = reorder_code(code)
  /\ pc' = "reordered"
  /\ UNCHANGED <<text, hist, flags, prompt, filename, requirements, idx, scan>>

MoveImportsToTop ==
  /\ pc = "reordered"
  /\ arg' = code
  /\ code' = move_imports_to_top(code)
  /\ hist' = Append(hist, code')
  /\ pc' = "consolidated"
  /\ UNCHANGED <<text, flags, prompt, filename, requirements, idx, scan>>

NextClean == ReorderCode \/ MoveImportsToTop

SpecClean == InitClean /\ [][NextClean]_vars

----------------------------------------------------------------------------
(* The Import Consolidator applied to a text                               *)

InitImports ==
  /\ text \in TextsOver(ImportAlphabet, MaxImportLines)
  /\ code = text /\ arg = text /\ hist = <<>> /\ pc = "input"
  /\ idx = 0 /\ scan = <<>>
  /\ Idle

ConsolidateImports ==
  /\ pc = "input"
  /\ arg' = code
  /\ code' = move_imports_to_top(code)
  /\ pc' = "consolidated"
  /\ UNCHANGED <<text, hist, flags, prompt, filename, requirements, idx, scan>>

NextImports == ConsolidateImports

SpecImports == InitImports /\ [][NextImports]_vars

----------------------------------------------------------------------------
(* The Block Locator applied to a raw text                                 *)

InitLocate ==
  /\ text \in TextsOver(RawAlphabet, MaxRawLines)
  /\ code = text /\ arg = text /\ hist = <<>> /\ pc = "input"
  /\ idx = 0 /\ scan = <<>>
  /\ flags \in {[NoFlags EXCEPT !.code_only = TRUE, !.clean = c] : c \in BOOLEAN}
  /\ prompt = <<>> /\ filename = <<>> /\ requirements = <<>>

ExtractCodeBlocks ==
  /\ pc = "input"
  /\ arg' = code
  /\ code' = extract_code_blocks(code, flags.clean)
  /\ pc' = "extracted"
  /\ UNCHANGED <<text, hist, flags, prompt, filename, requirements, idx, scan>>

NextLocate == ExtractCodeBlocks

SpecLocate == InitLocate /\ [][NextLocate]_vars

----------------------------------------------------------------------------
(* main: the completion is processed, then fixed                           *)

MaxFixLines == 5
MaxClasses == 2

FixAlphabet ==
  {Class(0, nNode), Class(0, nBST), Def(4, nInit, "self, key"),
   Stmt(8, "self.key = key"), Class(8, nFoo), Class(0, nFoo), Def(4, nbar, "self")}

ReturnStmt(k) ==
  CASE k = 1 -> "return 1"
    [] k = 2 -> "return 2"
    [] OTHER -> "return 3"

\* one class definition with one method that returns k
ClassDef(c, m, k) == <<Class(0, c), Def(4, m, "self"), Stmt(8, ReturnStmt(k))>>

Prose == Stmt(0, "Here is the code:")

\* completions that hold one fenced region with up to MaxClasses class
\* definitions, with or without prose before it and an import at its top
FencedCompletions ==
  {pre \o <<Fence(tag)>> \o imp \o Flatten([k \in 1..n |-> ClassDef(cs[k], ms[k], k)])
       \o <<Fence("")>> :
     pre \in {<<>>, <<Prose>>}, tag \in {"", "python"},
     imp \in {<<>>, <<Import(0, <<pOs>>)>>},
     n \in 1..MaxClasses,
     cs \in [1..MaxClasses -> {nFoo, nBar}], ms \in [1..MaxClasses -> {nbar, nbaz}]}

\* main with --fix alone, over any short text
InitFix ==
  /\ text \in TextsOver(FixAlphabet, MaxFixLines)
  /\ code = text /\ arg = text /\ hist = <<>> /\ pc = "input"
  /\ idx = 0 /\ scan = <<>>
  /\ flags = [NoFlags EXCEPT !.fix = TRUE]
  /\ prompt = <<>> /\ filename = <<>> /\ requirements = <<>>

\* main with any flags, over the fenced completions
InitMain ==
  /\ text \in FencedCompletions
  /\ code = text /\ arg = text /\ hist = <<>> /\ pc = "input"
  /\ idx = 0 /\ scan = <<>>
  /\ flags \in [{"code_only", "clean", "fix"} -> BOOLEAN]
  /\ prompt = <<>> /\ filename = <<>> /\ requirements = <<>>

ProcessCompletion ==
  /\ pc = "input"
  /\ arg' = code
  /\ code' = IF flags.code_only THEN extract_code_blocks(code, flags.clean)
             ELSE IF flags.clean THEN clean_code_for_execution(code)
             ELSE code
  /\ pc' = "processed"
  /\ UNCHANGED <<text, hist, flags, prompt, filename, requirements, idx, scan>>

FixCommonCodeIssues ==
  /\ pc = "processed" /\ flags.fix
  /\ arg' = code
  /\ code' = fix_common_code_issues(code)
  /\ pc' = "fixed"
  /\ UNCHANGED <<text, hist, flags, prompt, filename, requirements, idx, scan>>

NextMain == ProcessCompletion \/ FixCommonCodeIssues

SpecFix == InitFix /\ [][NextMain]_vars

SpecMain == InitMain /\ [][NextMain]_vars

----------------------------------------------------------------------------
(* The Dependency Reporter applied to a text                               *)

MaxReqLines == 3

pNp == <<"np">>
pBs4 == <<"bs4">>
pPIL == <<"PIL">>
pFlask == <<"flask">>

ReqAlphabet ==
  {Stmt(0, "x = 1"), Import(0, <<pOs>>), Import(0, <<pNumpy>>), Import(0, <<pNp>>),
   Import(4, <<pOsPath, pFlask>>), From(0, pRelM), Import(0, <<pPIL, pBs4>>),
   From(4, <<"numpy", "linalg">>)}

InitRequirements ==
  /\ text \in TextsOver(ReqAlphabet, MaxReqLines)
  /\ code = text /\ arg = text /\ hist = <<>> /\ pc = "input"
  /\ idx = 0 /\ scan = <<>>
  /\ Idle

GenerateRequirementsFile ==
  /\ pc = "input"
  /\ requirements' = generate_requirements_file(code)
  /\ pc' = "reported"
  /\ UNCHANGED <<text, code, arg, hist, flags, prompt, filename, idx, scan>>

NextRequirements == GenerateRequirementsFile

SpecRequirements == InitRequirements /\ [][NextRequirements]_vars

----------------------------------------------------------------------------
(* The filename derived from a code text and a prompt                      *)

MaxNameLines == 3
MaxPromptWords == 2

nBinaryTree == <<"B", "i", "n", "a", "r", "y", "T", "r", "e", "e">>

NameAlphabet ==
  {Class(0, nBinaryTree), Class(4, nBST), Def(0, nf, ""), Stmt(0, "x = 1"),
   Comment(0, nFoo), CommentEnding(0, "class")}

PromptWords ==
  {<<"W", "r", "i", "t", "e">>, <<"a">>, <<"t", "r", "e", "e">>, <<"?", "?", "?">>}

InitFilename ==
  /\ text \in TextsOver(NameAlphabet, MaxNameLines)
  /\ code = text /\ arg = text /\ hist = <<>> /\ pc = "input"
  /\ idx = 0 /\ scan = <<>>
  /\ prompt \in UNION {[1..k -> PromptWords] : k \in 0..MaxPromptWords}
  /\ flags = NoFlags /\ filename = <<>> /\ requirements = <<>>

GenerateFilename ==
  /\ pc = "input"
  /\ \E timestamp \in Timestamps :
       filename' = generate_filename_from_content(code, prompt, timestamp)
  /\ pc' = "named"
  /\ UNCHANGED <<text, code, arg, hist, flags, prompt, requirements, idx, scan>>

NextFilename == GenerateFilename

SpecFilename == InitFilename /\ [][NextFilename]_vars

----------------------------------------------------------------------------
(* The duplicate-constructor collapse applied to a text                    *)

MaxInitLines == 6

InitAlphabet ==
  {Class(0, nFoo), Class(0, nBar), Def(4, nInit, "self"), Def(4, nInit, "self, key"),
   Stmt(8, "pass")}

InitInits ==
  /\ text \in TextsOver(InitAlphabet, MaxInitLines)
  /\ code = text /\ arg = text /\ hist = <<>> /\ pc = "input"
  /\ idx = 0 /\ scan = <<>>
  /\ Idle

FixDuplicateInitMethods ==
  /\ pc = "input"
  /\ arg' = code
  /\ code' = fix_duplicate_init_methods(code)
  /\ pc' = "collapsed"
  /\ UNCHANGED <<text, hist, flags, prompt, filename, requirements, idx, scan>>

NextInits == FixDuplicateInitMethods

SpecInits == InitInits /\ [][NextInits]_vars

----------------------------------------------------------------------------
(* The clean stage applied to a text with docstrings                       *)

MaxDocLines == 4

DocAlphabet ==
  {Def(0, nf, ""), Doc(4), Def(4, ng, ""), Class(4, nFoo), Mk(4, "guard", <<>>, "", <<>>, FALSE),
   Stmt(4, "pass")}

InitDoc ==
  /\ text \in TextsOver(DocAlphabet, MaxDocLines)
  /\ code = text /\ arg = text /\ hist = <<>> /\ pc = "input"
  /\ idx = 0 /\ scan = <<>>
  /\ Idle

SpecDoc == InitDoc /\ [][NextClean]_vars

----------------------------------------------------------------------------
(* main with --fix alone, over texts with methods and top-level functions  *)

MaxScopeLines == 4

ScopeAlphabet ==
  {Class(0, nFoo), Class(0, nBar), Def(4, nbar, "self"), Def(0, nbar, ""),
   Stmt(4, "pass"), Stmt(0, "x = 1")}

InitScope ==
  /\ text \in TextsOver(ScopeAlphabet, MaxScopeLines)
  /\ code = text /\ arg = text /\ hist = <<>> /\ pc = "input"
  /\ idx = 0 /\ scan = <<>>
  /\ flags = [NoFlags EXCEPT !.fix = TRUE]
  /\ prompt = <<>> /\ filename = <<>> /\ requirements = <<>>

SpecScope == InitScope /\ [][NextMain]_vars

----------------------------------------------------------------------------
(* The node/tree repair applied to a text                                  *)

MaxNodeLines == 5

NodeAlphabet ==
  {Class(0, nNode), Class(0, nBST), Def(4, nInit, "self, key"), Def(4, nInit, "self"),
   Stmt(8, "self.key = key")}

InitNode ==
  /\ text \in TextsOver(NodeAlphabet, MaxNodeLines)
  /\ code = text /\ arg = text /\ hist = <<>> /\ pc = "input"
  /\ idx = 0 /\ scan = <<>>
  /\ Idle

FixIncompleteNodeClass ==
  /\ pc = "input"
  /\ arg' = code
  /\ code' = fix_incomplete_node_class(code)
  /\ pc' = "repaired"
  /\ UNCHANGED <<text, hist, flags, prompt, filename, requirements, idx, scan>>

SpecNode == InitNode /\ [][FixIncompleteNodeClass]_vars

----------------------------------------------------------------------------
(* The loops of the Conflict Resolver, one step per loop test: idx is the  *)
(* index i of the loop in progress (counted from 0), scan its other        *)
(* locals, with j the index of the span scan and visits the number of      *)
(* times the body of the loop was entered in the current pass              *)

MaxLoopLines == 4

LoopAlphabet ==
  {Class(0, nFoo), Def(4, nbar, "self"), Def(4, nInit, "self"),
   Def(4, nInit, "self, key"), Stmt(8, "pass"), Blank}

\* j = i + 1 (lines 562, 586 and 777), as an index counted from 0
SpanStartAtHeader(i) == i
SpanStart(i) == i + 1

\* the test of the while loops of lines 564, 588 and 778, j counted from 0
InSpan(lines, j, span, indent_level) ==
  /\ j < Len(lines)
  /\ \/ IsBlank(lines[j + 1])
     \/ IF span = "class_span"
          THEN StartsWithBlank(lines[j + 1])
          ELSE lines[j + 1].ind > indent_level

InitLoops ==
  /\ text = <<Blank>>
  /\ code = text /\ arg = text /\ hist = <<>> /\ pc = "input"
  /\ idx = 0 /\ scan = <<>>
  /\ Idle

\* the call: lines = code.split('\n') and the locals of lines 546 to 551
EnterPass1 ==
  /\ pc = "input"
  /\ \E lines \in TextsOver(LoopAlphabet, MaxLoopLines) :
       /\ text' = lines /\ code' = lines /\ arg' = lines
  /\ pc' = "pass1" /\ idx' = 0
  /\ scan' = [class_defs |-> <<>>, method_defs |-> {}, fixed_lines |-> <<>>,
              j |-> 0, indent_level |-> 0, visits |-> 0]
  /\ UNCHANGED <<hist, flags, prompt, filename, requirements>>

\* one iteration of the loop of line 552, up to its span scan if it has one
Pass1Step ==
  /\ pc = "pass1" /\ idx < Len(code)
  /\ LET line == code[idx + 1]
         isClass == IsClassHeader(line)
         repeatedClass == isClass /\ InSeq(line.name, scan.class_defs)
         class_defs == IF isClass /\ ~repeatedClass
                         THEN Append(scan.class_defs, line.name)
                         ELSE scan.class_defs
         method_key == <<CurrentClass(class_defs), line.name>>
         repeatedMethod == /\ IsMethodHeader(line)
                           /\ method_key \in scan.method_defs
                           /\ line.name # nInit
     IN IF repeatedClass
          THEN /\ pc' = "class_span" /\ idx' = idx
               /\ scan' = [scan EXCEPT !.j = SpanStart(idx), !.indent_level = 0,
                                       !.visits = @ + 1]
        ELSE IF repeatedMethod
          THEN /\ pc' = "method_span" /\ idx' = idx
               /\ scan' = [scan EXCEPT !.class_defs = class_defs,
                                       !.j = SpanStart(idx),
                                       !.indent_level = line.ind,
                                       !.visits = @ + 1]
        ELSE /\ pc' = "pass1" /\ idx' = idx + 1
             /\ scan' = [scan EXCEPT !.class_defs = class_defs,
                                     !.method_defs = IF IsMethodHeader(line)
                                                       THEN @ \cup {method_key}
                                                       ELSE @,
                                     !.fixed_lines = Append(@, line),
                                     !.visits = @ + 1]
  /\ UNCHANGED <<text, code, arg, hist, flags, prompt, filename, requirements>>

\* one test of a span scan: j += 1 while the line belongs to the span, and
\* after it i = j and continue (lines 566, 590 and 787), the constructor
\* being recorded first (line 785)
SpanStep ==
  /\ pc \in {"class_span", "method_span", "init_span"}
  /\ IF InSpan(code, scan.j, pc, scan.indent_level)
       THEN /\ scan' = [scan EXCEPT !.j = @ + 1]
            /\ UNCHANGED <<pc, idx>>
       ELSE /\ idx' = scan.j
            /\ pc' = IF pc = "init_span" THEN "pass2b" ELSE "pass1"
            /\ scan' = IF pc = "init_span"
                         THEN [scan EXCEPT !.init_methods =
                                 Append(@, [class |-> scan.class_name,
                                            start |-> idx, end |-> scan.j,
                                            lines |-> SubSeq(code, idx + 1, scan.j)])]
                         ELSE scan
  /\ UNCHANGED <<text, code, arg, hist, flags, prompt, filename, requirements>>

\* the loop of line 552 ends: the kept lines are joined, the node repair
\* runs, and the loop of fix_duplicate_init_methods is entered
Pass1End ==
  /\ pc = "pass1" /\ idx >= Len(code)
  /\ code' = fix_incomplete_node_class(
               IF scan.fixed_lines = <<>> THEN <<Blank>> ELSE scan.fixed_lines)
  /\ pc' = "pass2b" /\ idx' = 0
  /\ scan' = [class_name |-> <<>>, init_methods |-> <<>>,
              j |-> 0, indent_level |-> 0, visits |-> 0]
  /\ UNCHANGED <<text, arg, hist, flags, prompt, filename, requirements>>

\* one iteration of the loop of line 761, up to its span scan if it has one
InitsStep ==
  /\ pc = "pass2b" /\ idx < Len(code)
  /\ LET line == code[idx + 1]
         class_name == IF IsClassHeader(line) THEN line.name ELSE scan.class_name
     IN IF IsInitHeader(line) /\ class_name # <<>>
          THEN /\ pc' = "init_span" /\ idx' = idx
               /\ scan' = [scan EXCEPT !.class_name = class_name,
                                       !.j = SpanStart(idx),
                                       !.indent_level = line.ind,
                                       !.visits = @ + 1]
          ELSE /\ pc' = "pass2b" /\ idx' = idx + 1
               /\ scan' = [scan EXCEPT !.class_name = class_name,
                                       !.visits = @ + 1]
  /\ UNCHANGED <<text, code, arg, hist, flags, prompt, filename, requirements>>

\* the loop of line 761 ends
InitsEnd ==
  /\ pc = "pass2b" /\ idx >= Len(code)
  /\ pc' = "scanned"
  /\ UNCHANGED <<text, code, arg, hist, flags, prompt, filename, requirements,
                 idx, scan>>

\* the loop of line 793 and the join of line 808
KeepBestInit ==
  /\ pc = "scanned"
  /\ code' = (LET out == CollapseInits(code, scan.init_methods,
                                       ClassesOf(scan.init_methods, <<>>))
              IN IF out = <<>> THEN <<Blank>> ELSE out)
  /\ pc' = "fixed"
  /\ UNCHANGED <<text, arg, hist, flags, prompt, filename, requirements, idx, scan>>

\* the steps of the two scanning loops
LoopSteps ==
  EnterPass1 \/ Pass1Step \/ SpanStep \/ Pass1End \/ InitsStep \/ InitsEnd

NextLoops == LoopSteps \/ KeepBestInit

\* the interpreter runs a call on: a step of a loop that can be taken is
\* taken
FairLoops == InitLoops /\ [][NextLoops]_vars /\ WF_vars(LoopSteps)

----------------------------------------------------------------------------
(* The clean stage applied to texts with repeated lines and with lines     *)
(* that carry trailing blanks                                              *)

MaxConserveLines == 4

ConserveAlphabet ==
  {Blank, Def(0, nf, ""), Class(0, nFoo), Stmt(0, "x = 1"),
   Mk(4, "stmt", <<>>, "pass", <<>>, TRUE), Guard, Import(0, <<pOs>>)}

InitConserve ==
  /\ text \in TextsOver(ConserveAlphabet, MaxConserveLines)
  /\ code = text /\ arg = text /\ hist = <<>> /\ pc = "input"
  /\ idx = 0 /\ scan = <<>>
  /\ Idle

SpecConserve == InitConserve /\ [][NextClean]_vars

----------------------------------------------------------------------------
(* The duplicate-constructor collapse applied to texts long enough for two *)
(* classes with two constructors each and a line after them               *)

MaxFrameLines == 7

FrameAlphabet ==
  {Class(0, nFoo), Class(0, nBar), Def(4, nInit, "self"), Def(4, nInit, "self, key"),
   Def(4, nbar, "self")}

InitFrame ==
  /\ text \in TextsOver(FrameAlphabet, MaxFrameLines)
  /\ code = text /\ arg = text /\ hist = <<>> /\ pc = "input"
  /\ idx = 0 /\ scan = <<>>
  /\ Idle

SpecFrame == InitFrame /\ [][NextInits]_vars

----------------------------------------------------------------------------
(* Claims                                                                  *)

\* C1: the clean stage is idempotent: a second pass of reorder_code followed
\* by move_imports_to_top over the output of the first pass returns that
\* output unchanged, F(F(T)) = F(T).
C1_Idempotent ==
  (pc = "consolidated" /\ Len(hist) = 2) => hist[2] = hist[1]

IsTopLevelHeader(l) == (IsDefHeader(l) \/ IsClassHeader(l)) /\ l.ind = 0

\* C2: when the input of the Declaration Reorderer holds an entry-point guard
\* line, the block of that guard is the last block of the output: no
\* top-level def or class header follows a guard line in the output.
C2_GuardBlockLast ==
  (pc = "reordered" /\ Positions(arg, IsMainGuard) # {}) =>
    \A i \in Positions(code, IsMainGuard) :
      \A j \in (i + 1)..Len(code) : ~IsTopLevelHeader(code[j])

\* the group the specification gives an import line: its leading top-level
\* module token is a standard-library name, or its module starts with the
\* relative marker, or neither
LeadingToken(l) == l.mods[1][1]
IsRelative(l) == Len(l.mods[1]) >= 2 /\ l.mods[1][1] = ""
StatedGroup(l) ==
  IF IsRelative(l) THEN "local"
  ELSE IF LeadingToken(l) \in StdLibModules THEN "std"
  ELSE "third"

GroupRank(g) == IF g = "std" THEN 1 ELSE IF g = "third" THEN 2 ELSE 3

ImportsOf(lines) == Filter(lines, Positions(lines, IsImportLine))

\* C3: after the Import Consolidator every import line precedes every
\* non-import line, the imports stand as all Standard, all ThirdParty, all
\* Local, each group keeps its input order, and no import is added or lost.
C3_ImportPlacement ==
  pc = "consolidated" =>
    LET ins == ImportsOf(arg)
        outs == ImportsOf(code)
    IN /\ \A i \in Positions(code, IsImportLine) :
            \A j \in 1..(i - 1) : IsImportLine(code[j])
       /\ \A i, j \in 1..Len(outs) :
            i < j => GroupRank(StatedGroup(outs[i])) <= GroupRank(StatedGroup(outs[j]))
       /\ \A g \in {"std", "third", "local"} :
            Filter(outs, {i \in 1..Len(outs) : StatedGroup(outs[i]) = g})
              = Filter(ins, {i \in 1..Len(ins) : StatedGroup(ins[i]) = g})
       /\ Len(outs) = Len(ins)

\* C4: in the header the Import Consolidator builds, two consecutive
\* non-empty groups are separated by a blank line: two import lines of
\* different groups never stand on adjacent lines.
C4_GroupsSeparated ==
  pc = "consolidated" =>
    \A i \in 1..(Len(code) - 1) :
      (IsImportLine(code[i]) /\ IsImportLine(code[i + 1]))
        => ImportGroup(code[i]) = ImportGroup(code[i + 1])

FenceLines(lines) == Positions(lines, HasFence)
Max(S) == CHOOSE x \in S : \A y \in S : y <= x

\* text.strip(): without the blank lines at both ends, the indentation of the
\* first line and the trailing blanks of the last
TrimText(lines) ==
  LET full == Positions(lines, LAMBDA l : ~IsBlank(l))
  IN IF full = {} THEN <<Blank>>
     ELSE LET a == Min(full)
              b == Max(full)
              cut == SubSeq(lines, a, b)
          IN [i \in 1..Len(cut) |->
                IF i = 1 /\ i = Len(cut) THEN [cut[i] EXCEPT !.ind = 0, !.trail = FALSE]
                ELSE IF i = 1 THEN [cut[i] EXCEPT !.ind = 0]
                ELSE IF i = Len(cut) THEN [cut[i] EXCEPT !.trail = FALSE]
                ELSE cut[i]]

\* the lines between the k-th and the (k+1)-th fence line
InnerLines(lines, k) ==
  LET f == FenceLines(lines)
      o == CHOOSE x \in f : Cardinality({y \in f : y < x}) = k - 1
      c == CHOOSE x \in f : Cardinality({y \in f : y < x}) = k
  IN SubSeq(lines, o + 1, c - 1)

\* the region has content, and its first and last inner lines are not blank
HasSolidContent(inner) ==
  inner # <<>> /\ ~IsBlank(inner[1]) /\ ~IsBlank(inner[Len(inner)])

\* C7: with clean mode off and exactly one fenced region in the raw text
\* (an opening fence with or without a language tag, a bare closing fence),
\* the Block Locator returns the region's inner content trimmed of leading
\* and trailing whitespace, and nothing else.
C7_SingleFencedBlock ==
  (/\ pc = "extracted" /\ ~flags.clean
   /\ Cardinality(FenceLines(arg)) = 2
   /\ arg[Max(FenceLines(arg))].arg = ""
   /\ HasSolidContent(InnerLines(arg, 1)))
    => code = TrimText(InnerLines(arg, 1))

\* C8: with clean mode off and two fenced regions in the raw text, the Block
\* Locator returns the first region's content, exactly one blank line, and
\* the second region's content, in that order (whitespace at the two ends of
\* the result is not compared).
C8_TwoBlocksOneBlankLine ==
  (/\ pc = "extracted" /\ ~flags.clean
   /\ Cardinality(FenceLines(arg)) = 4
   /\ \A k \in {1, 3} : HasSolidContent(InnerLines(arg, k)))
    => TrimText(code)
         = TrimText(InnerLines(arg, 1)) \o <<Blank>> \o TrimText(InnerLines(arg, 3))

\* C5: after conflict resolution no class name occurs in more than one class
\* header line of the output (so two same-named class definitions of the
\* input leave exactly one header for that name).
C5_OneHeaderPerClassName ==
  pc = "fixed" =>
    \A i, j \in Positions(code, IsClassHeader) : code[i].name = code[j].name => i = j

\* the example of the full pipeline: a fenced region with import os, class
\* Foo with bar returning 1 and a second class Foo with bar returning 2
PipelineExamples ==
  {pre \o <<Fence(tag), Import(0, <<pOs>>)>> \o ClassDef(nFoo, nbar, 1)
       \o ClassDef(nFoo, nbar, 2) \o <<Fence("")>> :
     pre \in {<<>>, <<Prose>>}, tag \in {"", "python"}}

\* C6: for the pipeline example, extraction with clean enabled followed by
\* the Conflict Resolver yields exactly one class Foo header, still followed
\* by its method bar returning 1, and the second definition's return 2 is
\* gone.
C6_PipelineKeepsFirstFoo ==
  (/\ pc = "fixed" /\ flags.code_only /\ flags.clean
   /\ text \in PipelineExamples)
    => /\ Cardinality({i \in Positions(code, IsClassHeader) : code[i].name = nFoo}) = 1
       /\ \E i \in 1..(Len(code) - 2) :
            /\ IsClassHeader(code[i]) /\ code[i].name = nFoo
            /\ code[i + 1] = Def(4, nbar, "self")
            /\ code[i + 2] = Stmt(8, ReturnStmt(1))
       /\ \A i \in 1..Len(code) : code[i].arg # ReturnStmt(2)

\* C9: the list of names the Dependency Reporter emits is sorted, holds no
\* name twice, holds no name of the standard-library set, and holds the
\* published package name in place of every alias of the lookup table.
C9_ManifestShape ==
  pc = "reported" =>
    /\ \A i, j \in 1..Len(requirements) :
         i < j => NameRank(requirements[i]) <= NameRank(requirements[j])
    /\ \A i, j \in 1..Len(requirements) :
         requirements[i] = requirements[j] => i = j
    /\ \A i \in 1..Len(requirements) : requirements[i] \notin RequirementsStdLib
    /\ \A i \in 1..Len(requirements) :
         requirements[i] \in MappedPackages
           => package_mapping(requirements[i]) = requirements[i]

\* the conversion as stated: an underscore before each internal upper-case
\* letter, every letter lower-cased, no leading underscore
StatedSnakeCase(name) ==
  LStripUnderscores(
    Flatten([i \in 1..Len(name) |->
               IF IsUpper(name[i]) /\ i > 1 THEN <<"_", Lower(name[i])>>
               ELSE <<Lower(name[i])>>]))

\* C10: when the code holds a class header the filename is the first class
\* name in snake case plus .py; when it holds no class header but a function
\* header it is the first function name plus .py (the prompt plays no part
\* in either case).
C10_FilenameDerivation ==
  pc = "named" =>
    LET classes == Positions(code, IsClassHeader)
        defs == Positions(code, IsDefHeader)
    IN /\ classes # {} => filename = StatedSnakeCase(code[Min(classes)].name) \o DotPy
       /\ (classes = {} /\ defs # {}) => filename = code[Min(defs)].name \o DotPy

TagRank(tag) ==
  CASE tag = "import" -> 1
    [] tag = "class" -> 2
    [] tag = "function" -> 3
    [] tag = "other" -> 4
    [] tag = "main" -> 5

HasText(block) == \E i \in 1..Len(block) : ~IsBlank(block[i])

\* the number of blank lines a block ends with
RECURSIVE TrailingBlanks(_)
TrailingBlanks(block) ==
  IF block = <<>> \/ ~IsBlank(block[Len(block)]) THEN 0
  ELSE 1 + TrailingBlanks(SubSeq(block, 1, Len(block) - 1))

\* C11: the blocks of the Reorderer output stand as Import, Class, Function,
\* Other, Main blocks, at most one of them is a Main block, and two adjacent
\* blocks are separated by exactly one blank line: the joiner's blank line
\* is the only one, no block brings a blank line of its own to its end.
C11_BlockOrderAndSpacing ==
  pc = "reordered" =>
    LET blocks == OrderedBlocks(CodeBlocks(arg))
    IN /\ \A i, j \in 1..Len(blocks) :
            i < j => TagRank(BlockTag(blocks[i])) <= TagRank(BlockTag(blocks[j]))
       /\ Cardinality({i \in 1..Len(blocks) : BlockTag(blocks[i]) = "main"}) <= 1
       /\ \A k \in 1..(Len(blocks) - 1) :
            (HasText(blocks[k]) /\ HasText(blocks[k + 1]))
              => TrailingBlanks(blocks[k]) = 0

\* the constructor spans of a text, as the collapse records them
InitSpans(lines) == InitScan(lines, 1, <<>>, <<>>)
SpansOf(lines, c) ==
  Filter(InitSpans(lines), {k \in 1..Len(InitSpans(lines)) : InitSpans(lines)[k].class = c})

\* the stated order of two spans: fewer parameters, or as many and fewer lines
StatedLess(a, b) ==
  LET pa == Len(Params(a.lines[1].arg))
      pb == Len(Params(b.lines[1].arg))
  IN pa < pb \/ (pa = pb /\ Len(a.lines) < Len(b.lines))

\* C12: after fix_duplicate_init_methods every class that had more than one
\* constructor span has exactly one, and it is a span of that class with the
\* greatest parameter count (among those, with the greatest line count);
\* this holds for every class of the text.
C12_OneBestInitPerClass ==
  pc = "collapsed" =>
    \A k \in 1..Len(InitSpans(arg)) :
      LET c == InitSpans(arg)[k].class
          before == SpansOf(arg, c)
          after == SpansOf(code, c)
      IN Len(before) > 1 =>
           /\ Len(after) = 1
           /\ \E m \in 1..Len(before) :
                /\ before[m].lines = after[1].lines
                /\ \A n \in 1..Len(before) : ~StatedLess(before[m], before[n])

\* line j lies in the body of the class whose header is line i: only
\* indented or blank lines stand between them
InBodyOf(lines, i, j) ==
  /\ i < j /\ IsClassHeader(lines[i]) /\ lines[i].ind = 0
  /\ \A k \in (i + 1)..j : IsBlank(lines[k]) \/ lines[k].ind > 0

\* C13: a block of the Reorderer starts only at a def header, class header
\* or guard line at zero indentation, and a method (an indented def in a
\* class body) is still in the body of its class in the output.
C13_BlocksStartAtTopLevel ==
  pc = "reordered" =>
    LET blocks == CodeBlocks(arg)
    IN /\ \A k \in 2..Len(blocks) :
            /\ blocks[k][1].ind = 0
            /\ IsDefHeader(blocks[k][1]) \/ IsClassHeader(blocks[k][1])
                 \/ IsMainGuard(blocks[k][1])
       /\ \A i, j \in 1..Len(arg) :
            (InBodyOf(arg, i, j) /\ IsDefHeader(arg[j])) =>
              \E p, q \in 1..Len(code) :
                /\ code[p] = RStrip(arg[i]) /\ code[q] = RStrip(arg[j])
                /\ InBodyOf(code, p, q)

\* line i lies between an opening triple-quote marker line and its closing
\* marker line
InDocstring(lines, i) ==
  /\ ~IsTripleQuote(lines[i])
  /\ Cardinality({k \in 1..(i - 1) : IsTripleQuote(lines[k])}) % 2 = 1
  /\ \E k \in (i + 1)..Len(lines) : IsTripleQuote(lines[k])

\* C14: a line inside a docstring never starts a block of the Reorderer,
\* whatever its text begins with: in the output it still stands directly
\* after the line it followed in the input.
C14_DocstringLinesStay ==
  (pc = "reordered" /\ hist = <<>>) =>
    \A i \in 2..Len(arg) :
      InDocstring(arg, i) =>
        \E q \in 2..Len(code) :
          code[q] = RStrip(arg[i]) /\ code[q - 1] = RStrip(arg[i - 1])

InStatedGroup(lines, g) ==
  Filter(lines, {i \in 1..Len(lines) : StatedGroup(lines[i]) = g})

\* C15: the Import Consolidator places each import by its leading top-level
\* module token: the imports of its output are those whose token is a
\* standard-library name, then those that are neither, then those whose
\* module starts with the relative marker.
C15_ClassifiedByLeadingToken ==
  pc = "consolidated" =>
    ImportsOf(code) = InStatedGroup(ImportsOf(arg), "std")
                        \o InStatedGroup(ImportsOf(arg), "third")
                        \o InStatedGroup(ImportsOf(arg), "local")

IsTopLevelDef(l) == IsDefHeader(l) /\ l.ind = 0

\* C16: pass 1 keys a method by its enclosing class and a top-level function
\* by no class: a top-level def is kept when every earlier def of its name
\* is a method in a class body, and a method is kept when no earlier def of
\* its name stands in the body of its class (the first class of that name).
C16_MethodKeyScope ==
  pc = "fixed" =>
    /\ \A j \in 1..Len(arg) :
         (/\ IsTopLevelDef(arg[j])
          /\ \A i \in 1..(j - 1) :
               (IsDefHeader(arg[i]) /\ arg[i].name = arg[j].name)
                 => \E h \in 1..(i - 1) : InBodyOf(arg, h, i))
           => \E q \in 1..Len(code) : code[q] = arg[j]
    /\ \A i, j \in 1..Len(arg) :
         (/\ InBodyOf(arg, i, j) /\ IsDefHeader(arg[j])
          /\ ~\E h \in 1..(i - 1) : IsClassHeader(arg[h]) /\ arg[h].name = arg[i].name
          /\ ~\E k \in (i + 1)..(j - 1) : IsDefHeader(arg[k]) /\ arg[k].name = arg[j].name)
           => \E q \in 1..Len(code) : code[q] = arg[j]

\* C17: with clean mode off, no fence line in the raw text and at least one
\* line indented by four blanks, the Block Locator returns every indented
\* line without its indent unit, in source order.
C17_EveryIndentedLine ==
  (/\ pc = "extracted" /\ ~flags.clean
   /\ FenceLines(arg) = {}
   /\ Positions(arg, IsIndentedLine) # {})
    => code = [k \in 1..Len(Filter(arg, Positions(arg, IsIndentedLine))) |->
                 Dedent(Filter(arg, Positions(arg, IsIndentedLine))[k])]

\* nothing of the prompt is usable: every word is a stop word, shorter than
\* three characters, or left empty once the characters outside [a-z0-9_]
\* are dropped
NothingUsable(prompt_words) ==
  \A i \in 1..Len(prompt_words) :
    LET w == LowerWord(prompt_words[i])
    IN w \in common_words \/ Len(w) < 3 \/ KeepNameChars(w) = <<>>

\* C18: when the code holds neither `class` nor `def` followed by a word and
\* nothing of the prompt is usable, the filename is code_<timestamp>.py; the
\* stem of the filename is never empty.
C18_TimestampFallback ==
  pc = "named" =>
    /\ (/\ KeywordSearch(code, kwClass) = <<>>
        /\ KeywordSearch(code, kwDef) = <<>>
        /\ NothingUsable(prompt))
         => \E timestamp \in Timestamps :
              filename = <<"c", "o", "d", "e", "_">> \o timestamp \o DotPy
    /\ filename # DotPy

\* the class whose header is line k has an empty body: the next line that is
\* not blank, if any, is not indented deeper than the header
EmptyBody(lines, k) ==
  NextSolid(lines, k) = 0 \/ lines[NextSolid(lines, k)].ind <= lines[k].ind

\* the class whose header is line b has, in its body, a constructor whose
\* first parameter is key, val or value
HasKeyConstructor(lines, b) ==
  \E d \in (b + 1)..(IndentSpanEnd(lines, b + 1, lines[b].ind) - 1) : IsKeyInit(lines[d])

\* C19: fix_incomplete_node_class changes the text only when a node class
\* (Node, TreeNode) is declared with an empty body and a container class
\* (BinarySearchTree, BST) has a constructor whose first parameter is
\* key, val or value.
C19_RepairTrigger ==
  (pc = "repaired" /\ code # arg) =>
    /\ \E k \in ClassLines(arg, NodeNames) : EmptyBody(arg, k)
    /\ \E b \in ClassLines(arg, ContainerNames) : HasKeyConstructor(arg, b)


\* the positions of the two scanning loops and of their span scans
LoopHeads == {"pass1", "pass2b"}

SpanScans == {"class_span", "method_span", "init_span"}

\* the line index stays within the lines, a span scan starts after the
\* header and stays within the lines, and the body of a loop is entered at
\* most once per line
IndexInRange ==
  (pc \in LoopHeads \cup SpanScans) =>
    /\ idx >= 0 /\ idx <= Len(code)
    /\ scan.visits <= Len(code)
    /\ pc \in SpanScans => idx < scan.j /\ scan.j <= Len(code)

\* an iteration without a span advances the line index by one, a span scan
\* starts after the header, every test of a span scan that continues
\* advances its index, and the skipped span advances the line index
IndexAdvances ==
  /\ (pc \in LoopHeads /\ pc' = pc) => idx' = idx + 1
  /\ (pc \in LoopHeads /\ pc' \in SpanScans) => idx' = idx /\ scan'.j > idx
  /\ (pc \in SpanScans /\ pc' = pc) => idx' = idx /\ scan'.j = scan.j + 1
  /\ (pc \in SpanScans /\ pc' \in LoopHeads) => idx' > idx /\ idx' = scan.j

\* C20: the scans of the Conflict Resolver terminate: in the pass-1 loop, in
\* every span scan and in the loop of fix_duplicate_init_methods the line
\* index strictly increases on every iteration (a skipped span advances it
\* by at least one line) and never passes the number of lines, each pass
\* visits a line at most once, and both loops reach their end.
C20_LoopsTerminate ==
  /\ []IndexInRange
  /\ [][IndexAdvances]_vars
  /\ <>(pc = "scanned")

\* both loops ended after pass 1 skipped a span of more than one line and
\* the second loop scanned the span of a constructor
C20_SpanSkipped ==
  /\ pc = "scanned"
  /\ Len(code) + 1 < Len(text)
  /\ scan.init_methods # <<>>


\* the non-blank lines of a text, each without its trailing blanks
NonBlankLines(lines) ==
  LET kept == Filter(lines, {k \in 1..Len(lines) : ~IsBlank(lines[k])})
  IN [k \in 1..Len(kept) |-> RStrip(kept[k])]

\* the number of times a line stands in a sequence of lines
Occurrences(lines, l) == Cardinality({k \in 1..Len(lines) : lines[k] = l})

SameMultiset(a, b) ==
  \A l \in {a[k] : k \in 1..Len(a)} \cup {b[k] : k \in 1..Len(b)} :
    Occurrences(a, l) = Occurrences(b, l)

\* s can be obtained from t by deleting lines
RECURSIVE IsSubsequence(_, _)
IsSubsequence(s, t) ==
  IF s = <<>> THEN TRUE
  ELSE IF t = <<>> THEN FALSE
  ELSE IF Head(s) = Head(t) THEN IsSubsequence(Tail(s), Tail(t))
  ELSE IsSubsequence(s, Tail(t))

BlockTags == {"import", "class", "function", "other", "main"}

\* the non-blank lines of the input that fall in one category, in input order
CategoryLines(lines, tag) ==
  NonBlankLines(Flatten(BlocksTagged(CodeBlocks(lines), tag)))

\* C21: the non-blank lines of the Reorderer output, compared without their
\* trailing blanks, are the non-blank lines of its input, each as many times
\* as in the input (none dropped, duplicated or altered), and the lines that
\* fall in the same category stand in the output in their input order.
C21_LinesConserved ==
  pc = "reordered" =>
    /\ SameMultiset(NonBlankLines(code), NonBlankLines(arg))
    /\ \A tag \in BlockTags :
         IsSubsequence(CategoryLines(arg, tag), NonBlankLines(code))

\* the Reorderer moved lines of a text that repeats a line and has a line
\* with trailing blanks
C21_LinesMoved ==
  /\ pc = "reordered"
  /\ NonBlankLines(code) # NonBlankLines(arg)
  /\ \E k \in 1..Len(arg) : arg[k].trail
  /\ \E k, m \in 1..Len(arg) : k # m /\ ~IsBlank(arg[k]) /\ arg[k] = arg[m]


\* the lines of a text outside every constructor span the collapse records
\* (start and end count lines from 0, end is exclusive)
OutsideLines(lines) ==
  Filter(lines, {k \in 1..Len(lines) :
                   \A m \in 1..Len(InitSpans(lines)) :
                     ~(InitSpans(lines)[m].start < k /\ k <= InitSpans(lines)[m].end)})

\* C22: fix_duplicate_init_methods deletes only lines of the constructor
\* spans it recorded: the lines outside every recorded span stand in the
\* output, in their original relative order, also when several classes each
\* lose a duplicate constructor.
C22_OutsideLinesKept ==
  pc = "collapsed" => IsSubsequence(OutsideLines(arg), code)

====
